---- MODULE Spec2Model ----
(***************************************************************************)
(* Batch pipeline of process_parquet.py / utils.py: the driver loop of     *)
(* process_parquet_file, the row filter prepare_api_batch, the HTTP client *)
(* make_api_call and the sink save_results.                                *)
(*                                                                         *)
(* A DataFrame is a sequence of entries [index, row]; index is the pandas  *)
(* label (RangeIndex, 0-based position in the input file).  Texts are      *)
(* sequences of one-character strings so that str.strip() is computed.     *)
(* The fields of a response item other than pageId are copied verbatim by  *)
(* the driver and are not represented; processed_at is a wall-clock stamp  *)
(* and is not represented either.                                          *)
(***************************************************************************)
EXTENDS Integers, Sequences, FiniteSets, TLC

\* ---------------------------------------------------------------- bounds
MaxRecords == 3
MaxBatchSize == 3
MaxItems == 2
MaxRetries == 3
MaxFilterRows == 2
MaxLiveRecords == 2

\* ------------------------------------------------------ program constants
\* default of make_api_call's max_retries, the value the driver's call uses
DefaultMaxRetries == 1
\* pageId of a response item that has no "pageId" key (result.get -> None),
\* also standing for any identifier that is no label of the input
NoPageId == -1

\* ------------------------------------------------------------------ texts
Whitespace == {" ", "\t", "\n"}

RECURSIVE lstrip(_)
lstrip(s) ==
    IF s # <<>> /\ Head(s) \in Whitespace THEN lstrip(Tail(s)) ELSE s

RECURSIVE rstrip(_)
rstrip(s) ==
    IF s # <<>> /\ s[Len(s)] \in Whitespace
    THEN rstrip(SubSeq(s, 1, Len(s) - 1))
    ELSE s

\* str.strip()
strip(s) == rstrip(lstrip(s))

\* A cell of a text column: a string, or a null (None) cell.
Cell(chars) == [null |-> FALSE, chars |-> chars]
NullCell == [null |-> TRUE, chars |-> <<>>]

\* str(value): the text itself, "None" for a null cell
str(cell) == IF cell.null THEN <<"N", "o", "n", "e">> ELSE cell.chars

\* Text cells the inputs are drawn from
TextCells ==
    { Cell(<<>>), Cell(<<" ">>), Cell(<<"a">>), Cell(<<" ", "a", "\t">>),
      NullCell }

\* Rows of the pipeline runs: a submittable row (padded child text) and a
\* row whose child text is blank.
RowKinds ==
    { [ChildText |-> Cell(<<" ", "a", "\t">>), AdultText |-> Cell(<<"a">>)],
      [ChildText |-> Cell(<<" ">>),            AdultText |-> Cell(<<"a">>)] }

\* ------------------------------------------------------------- DataFrames
\* The record at 0-based position k of the input file.
MakeRecord(k, texts) ==
    [ID |-> <<"id", k>>, ChildText |-> texts.ChildText,
     AdultText |-> texts.AdultText, Time |-> <<"time", k>>]

Min(a, b) == IF a < b THEN a ELSE b

\* df.iloc[lo:hi] : positional slice, the labels are kept
iloc(frame, lo, hi) ==
    [k \in 1..(Min(hi, Len(frame)) - Min(lo, Len(frame))) |->
        frame[Min(lo, Len(frame)) + k]]

Labels(frame) == { frame[k].index : k \in 1..Len(frame) }

\* batch_df.loc[label] : label lookup; KeyError when label \notin Labels
loc(frame, label) ==
    (CHOOSE e \in { frame[k] : k \in 1..Len(frame) } : e.index = label).row

\* ------------------------------------------------------ prepare_api_batch
SkipEntry(e) == [index |-> e.index, id |-> e.row.ID, reason |-> "empty_text"]

TextEntry(e) ==
    [pageId |-> e.index,
     childText |-> strip(str(e.row.ChildText)),
     adultText |-> strip(str(e.row.AdultText))]

\* Variant of IsEmptyRow: the texts are tested without .strip()
IsEmptyRowNoStrip(e) ==
    \/ str(e.row.ChildText) = <<>>
    \/ str(e.row.AdultText) = <<>>

\* `not child_text or not adult_text`
IsEmptyRow(e) ==
    \/ strip(str(e.row.ChildText)) = <<>>
    \/ strip(str(e.row.AdultText)) = <<>>

\* Variant of prepare_api_batch: the `continue` after recording a skipped
\* row is missing, so the row goes into the payload as well
RECURSIVE prepare_api_batch_no_continue(_)
prepare_api_batch_no_continue(df_batch) ==
    IF df_batch = <<>>
    THEN [texts |-> <<>>, skipped |-> <<>>]
    ELSE LET e == Head(df_batch)
             rest == prepare_api_batch_no_continue(Tail(df_batch))
         IN  [texts |-> <<TextEntry(e)>> \o rest.texts,
              skipped |-> IF IsEmptyRow(e)
                          THEN <<SkipEntry(e)>> \o rest.skipped
                          ELSE rest.skipped]

\* Variant of prepare_api_batch: each row is put in front of the rows
\* gathered so far (insert(0, ...) for append)
RECURSIVE prepare_api_batch_prepending(_)
prepare_api_batch_prepending(df_batch) ==
    IF df_batch = <<>>
    THEN [texts |-> <<>>, skipped |-> <<>>]
    ELSE LET e == Head(df_batch)
             rest == prepare_api_batch_prepending(Tail(df_batch))
         IN  IF IsEmptyRow(e)
             THEN [texts |-> rest.texts,
                   skipped |-> rest.skipped \o <<SkipEntry(e)>>]
             ELSE [texts |-> rest.texts \o <<TextEntry(e)>>,
                   skipped |-> rest.skipped]

\* The loop over df_batch.iterrows(): a row with an empty text goes to
\* skipped, every other row to texts, each list in the order of the rows
RECURSIVE prepare_api_batch(_)
prepare_api_batch(df_batch) ==
    IF df_batch = <<>>
    THEN [texts |-> <<>>, skipped |-> <<>>]
    ELSE LET e == Head(df_batch)
             rest == prepare_api_batch(Tail(df_batch))
         IN  IF IsEmptyRow(e)
             THEN [texts |-> rest.texts,
                   skipped |-> <<SkipEntry(e)>> \o rest.skipped]
             ELSE [texts |-> <<TextEntry(e)>> \o rest.texts,
                   skipped |-> rest.skipped]

\* ------------------------------------------------------- scoring service
\* A response item of a service that was sent rows of an n-row input: a
\* JSON object with a pageId (NoPageId when the key is absent), or a JSON
\* value that is no object (dict = FALSE).
Items(n) ==
    [dict : {TRUE}, pageId : {NoPageId} \cup (0..(n - 1))]
        \cup {[dict |-> FALSE, pageId |-> NoPageId]}

SeqsUpTo(S, m) == UNION { [1..k -> S] : k \in 0..m }

\* What make_api_call hands back.
\*   "none"   the failure signal None
\*   "falsy"  a 200 body that is falsy: null, {}, [], 0
\*   "nokey"  a 200 body, an object without the key "texts"
\*   "texts"  a 200 body {"texts": [items]}
\*   "nolist" a 200 body that contains "texts" but whose response['texts']
\*            cannot be iterated as items ({"texts": null}, ["texts"])
NoneResponse == [kind |-> "none", texts |-> <<>>]

Bodies(n) ==
    [kind : {"falsy", "nokey", "nolist"}, texts : {<<>>}]
        \cup [kind : {"texts"}, texts : SeqsUpTo(Items(n), MaxItems)]

\* ------------------------------------------------------------ reconciler
combined_result(original_row, page_id, batch_num) ==
    [original_id |-> original_row.ID,
     original_child_text |-> original_row.ChildText,
     original_adult_text |-> original_row.AdultText,
     original_time |-> original_row.Time,
     page_id |-> page_id,
     batch_number |-> batch_num]

\* Row lookup of one response item: `batch_df.loc[page_id]`
Lookup(batch_df, page_id) == loc(batch_df, page_id)

\* KeyError of `batch_df.loc[page_id]`
KeyError(batch_df, page_id) == page_id \notin Labels(batch_df)

\* Variant of MergeItems: the k-th item is paired with the k-th row of the
\* batch (`batch_df.iloc[k]`), pageId is not used for the lookup
RECURSIVE MergeItemsPositional(_, _, _)
MergeItemsPositional(items, rows, batch_num) ==
    IF items = <<>>
    THEN [out |-> <<>>, raised |-> FALSE]
    ELSE LET result == Head(items) IN
         IF ~result.dict \/ rows = <<>>
         THEN [out |-> <<>>, raised |-> TRUE]
         ELSE LET rest == MergeItemsPositional(Tail(items), Tail(rows),
                                               batch_num) IN
              [out |-> <<combined_result(Head(rows).row, result.pageId,
                                         batch_num)>>
                           \o rest.out,
               raised |-> rest.raised]

\* Variant of MergeItems: each record is put in front of the records of
\* the batch made so far (insert for append)
RECURSIVE MergeItemsPrepending(_, _, _)
MergeItemsPrepending(items, batch_df, batch_num) ==
    IF items = <<>>
    THEN [out |-> <<>>, raised |-> FALSE]
    ELSE LET result == Head(items) IN
         IF ~result.dict
         THEN [out |-> <<>>, raised |-> TRUE]
         ELSE IF KeyError(batch_df, result.pageId)
         THEN MergeItemsPrepending(Tail(items), batch_df, batch_num)
         ELSE LET rest == MergeItemsPrepending(Tail(items), batch_df,
                                               batch_num) IN
              [out |-> rest.out
                           \o <<combined_result(Lookup(batch_df,
                                                       result.pageId),
                                                result.pageId, batch_num)>>,
               raised |-> rest.raised]

\* The loop `for result in response['texts']`: the OutputRecords appended
\* and whether an exception left the loop (a result that is no object has
\* no .get); records appended before the exception stay appended.
RECURSIVE MergeItems(_, _, _)
MergeItems(items, batch_df, batch_num) ==
    IF items = <<>>
    THEN [out |-> <<>>, raised |-> FALSE]
    ELSE LET result == Head(items) IN
         IF ~result.dict
         THEN [out |-> <<>>, raised |-> TRUE]
         ELSE IF KeyError(batch_df, result.pageId)
         THEN MergeItems(Tail(items), batch_df, batch_num)
         ELSE LET rest == MergeItems(Tail(items), batch_df, batch_num) IN
              [out |-> <<combined_result(Lookup(batch_df, result.pageId),
                                         result.pageId, batch_num)>>
                           \o rest.out,
               raised |-> rest.raised]

\* Variant of ValidResponse: the failure signal None is not told apart
\* from a response
ValidResponseNoNoneCheck(response) ==
    response.kind \in {"texts", "nolist", "none"}

\* `response and 'texts' in response`
ValidResponse(response) == response.kind \in {"texts", "nolist"}

\* ------------------------------------------------------------------ state
VARIABLES
    input_file,     \* the file at the --input path
    output_file,    \* the --output path, a sequence of path components
    df,             \* the loaded input, a DataFrame
    batch_size,     \* --batch-size
    i,              \* offset of the driver loop
    pc,             \* "main" | "load" | "loop" | "call" | "returned" |
                    \* "done" (main returned) | "exit1" (sys.exit(1) or
                    \* an uncaught exception)
    api_request,    \* prepare_api_batch's result for the current batch
    max_retries,    \* make_api_call's parameter
    attempt,        \* make_api_call's loop variable
    delays,         \* arguments of the time.sleep calls of this call
    response,       \* what make_api_call returned
    results,        \* OutputRecords
    failed_batches, \* FailureEntries
    skipped_rows,   \* SkipEntries
    pbar,           \* progress counter
    http_log,       \* the POST requests sent, with the outcome of each
    files,          \* what save_results wrote
    save_calls,     \* number of calls of save_results
    exact_service   \* history of the service: every result list it has
                    \* returned so far answered each submitted row exactly
                    \* once and named no other row

vars ==
    <<input_file, output_file, df, batch_size, i, pc, api_request, max_retries, attempt, delays,
      response, results, failed_batches, skipped_rows, pbar, http_log,
      files, save_calls, exact_service>>

NoFiles == [parquet |-> <<>>, json |-> <<>>, failed |-> <<>>, skipped |-> <<>>]

InputFrames(n, kinds) ==
    { [k \in 1..n |-> [index |-> k - 1, row |-> MakeRecord(k - 1, t[k])]] :
        t \in [1..n -> kinds] }

\* The columns load_parquet_data requires
required_cols == {"ChildText", "AdultText", "Time", "ID"}

\* A parquet file with the required columns that holds the rows of frame
ParquetFile(frame) ==
    [exists |-> TRUE, readable |-> TRUE, columns |-> required_cols,
     rows |-> frame]

\* The default of --output, 'output/processed_results.parquet'
DefaultOutput == <<"output", "processed_results.parquet">>

\* os.path.dirname: the path without its last component
dirname(path) == SubSeq(path, 1, Len(path) - 1)

\* process_parquet_file before its loop: empty accumulators
Fresh ==
    /\ i = 0
    /\ attempt = 0
    /\ delays = <<>>
    /\ response = NoneResponse
    /\ results = <<>>
    /\ failed_batches = <<>>
    /\ pbar = 0
    /\ http_log = <<>>
    /\ files = NoFiles
    /\ save_calls = 0
    /\ exact_service = TRUE

\* process_parquet_file at its loop, for an input of at most m rows
Loaded(m) ==
    /\ \E n \in 0..m : df \in InputFrames(n, RowKinds)
    /\ input_file = ParquetFile(df)
    /\ output_file = DefaultOutput
    /\ batch_size \in 1..MaxBatchSize
    /\ pc = "loop"
    /\ max_retries = DefaultMaxRetries
    /\ api_request = [texts |-> <<>>, skipped |-> <<>>]
    /\ skipped_rows = <<>>
    /\ Fresh

Init == Loaded(MaxRecords)

\* ------------------------------------------------------- main and loading
\* Variant of load_parquet_data: the columns are not validated
load_parquet_data_unvalidated(file) ==
    IF ~file.readable
    THEN [exit |-> TRUE, df |-> <<>>]
    ELSE [exit |-> FALSE, df |-> file.rows]

\* load_parquet_data: read_parquet raising and the ValueError for missing
\* columns both end in the handler's sys.exit(1)
load_parquet_data(file) ==
    IF ~file.readable \/ ~(required_cols \subseteq file.columns)
    THEN [exit |-> TRUE, df |-> <<>>]
    ELSE [exit |-> FALSE, df |-> file.rows]

\* The files the --input path can name: none, one that is no parquet
\* file, a parquet file without some required column, a parquet file with
\* all of them
InputFiles ==
    {[exists |-> FALSE, readable |-> FALSE, columns |-> {}, rows |-> <<>>],
     [exists |-> TRUE, readable |-> FALSE, columns |-> {}, rows |-> <<>>]}
    \cup {[exists |-> TRUE, readable |-> TRUE, columns |-> c, rows |-> <<>>] :
              c \in (SUBSET required_cols) \ {required_cols}}
    \cup UNION {{ParquetFile(f) : f \in InputFrames(n, RowKinds)} :
                   n \in 0..MaxRecords}

\* The --output paths: in a directory, or a bare file name
OutputPaths == {DefaultOutput, <<"results.parquet">>}

\* main after argument parsing: the input path is tested, the output
\* directory is made (os.makedirs('') raises FileNotFoundError, which
\* nothing catches), process_parquet_file is entered
MainStart ==
    /\ pc = "main"
    /\ pc' = IF ~input_file.exists
             THEN "exit1"
             ELSE IF dirname(output_file) = <<>>
             THEN "exit1"
             ELSE "load"
    /\ UNCHANGED <<input_file, output_file, df, batch_size, i, api_request,
                   max_retries, attempt, delays, response, results,
                   failed_batches, skipped_rows, pbar, http_log, files,
                   save_calls, exact_service>>

\* process_parquet_file up to its loop: the input is loaded and the
\* accumulators start empty
LoadData ==
    /\ pc = "load"
    /\ LET loaded == load_parquet_data(input_file) IN
           IF loaded.exit
           THEN /\ pc' = "exit1"
                /\ df' = df
           ELSE /\ pc' = "loop"
                /\ df' = loaded.df
    /\ results' = <<>>
    /\ failed_batches' = <<>>
    /\ skipped_rows' = <<>>
    /\ UNCHANGED <<input_file, output_file, batch_size, i, api_request,
                   max_retries, attempt, delays, response, pbar, http_log,
                   files, save_calls, exact_service>>

\* ------------------------------------------------------------ driver loop
\* Variant of batch_df: the slice has no upper end (`df.iloc[i:]`)
batch_df_open_ended == iloc(df, i, Len(df))

\* `batch_df = df.iloc[i:i+batch_size]`
batch_df == iloc(df, i, i + batch_size)
\* Variant of batch_num: 0-based
batch_num_zero_based == i \div batch_size

batch_num == (i \div batch_size) + 1

\* Variant of total_batches: the short last batch is not counted
total_batches_floor == Len(df) \div batch_size

total_batches ==
    (Len(df) \div batch_size) + (IF Len(df) % batch_size > 0 THEN 1 ELSE 0)

\* Variant of LoopContinues: the loop is left at the first failed batch
LoopStopsAfterFailure == i < Len(df) /\ failed_batches = <<>>

\* `for i in range(0, len(df), batch_size)`: there is a next offset
LoopContinues == i < Len(df)

\* Variant of PrepareBatch: the test `if api_request['texts']` is missing,
\* make_api_call is entered for every batch
PrepareBatchAlwaysCalls ==
    /\ pc = "loop"
    /\ LoopContinues
    /\ LET req == prepare_api_batch(batch_df) IN
       /\ api_request' = req
       /\ skipped_rows' = skipped_rows \o req.skipped
    /\ pc' = "call"
    /\ max_retries' = DefaultMaxRetries
    /\ attempt' = 0
    /\ delays' = <<>>
    /\ UNCHANGED <<input_file, output_file, df, batch_size, i, pbar, response, results,
                   failed_batches, http_log, files, save_calls,
                   exact_service>>

\* Variant of PrepareBatch: the skips of the batch replace the skips
\* gathered so far (`skipped_rows = api_request['skipped']`)
PrepareBatchOverwritesSkips ==
    /\ pc = "loop"
    /\ LoopContinues
    /\ LET req == prepare_api_batch(batch_df) IN
       /\ api_request' = req
       /\ skipped_rows' = IF req.skipped # <<>>
                          THEN req.skipped ELSE skipped_rows
       /\ IF req.texts # <<>>
          THEN /\ pc' = "call"
               /\ max_retries' = DefaultMaxRetries
               /\ attempt' = 0
               /\ delays' = <<>>
               /\ UNCHANGED <<i, pbar>>
          ELSE /\ pc' = "loop"
               /\ i' = i + batch_size
               /\ pbar' = pbar + Len(batch_df)
               /\ UNCHANGED <<max_retries, attempt, delays>>
    /\ UNCHANGED <<input_file, output_file, df, batch_size, response,
                   results, failed_batches, http_log, files, save_calls,
                   exact_service>>

\* Start of one iteration: slice, filter, record the skips; enter
\* make_api_call when there is something to send, else finish the iteration.
PrepareBatch ==
    /\ pc = "loop"
    /\ LoopContinues
    /\ LET req == prepare_api_batch(batch_df) IN
       /\ api_request' = req
       /\ skipped_rows' = skipped_rows \o req.skipped
       /\ IF req.texts # <<>>
          THEN /\ pc' = "call"
               /\ max_retries' = DefaultMaxRetries
               /\ attempt' = 0
               /\ delays' = <<>>
               /\ UNCHANGED <<i, pbar>>
          ELSE /\ pc' = "loop"
               /\ i' = i + batch_size
               /\ pbar' = pbar + Len(batch_df)
               /\ UNCHANGED <<max_retries, attempt, delays>>
    /\ UNCHANGED <<input_file, output_file, df, batch_size, response, results, failed_batches,
                   http_log, files, save_calls, exact_service>>

\* ---------------------------------------------------------- make_api_call
Sent(outcome) ==
    Append(http_log, [texts |-> api_request.texts, outcome |-> outcome])

\* A result list that answers each row of the payload exactly once
ExactAnswer(items, texts) ==
    /\ Len(items) = Len(texts)
    /\ \A k \in 1..Len(items) : items[k].dict
    /\ { items[k].pageId : k \in 1..Len(items) }
           = { texts[k].pageId : k \in 1..Len(texts) }

\* Variant of AttemptOk: a 200 body without the "texts" key is not
\* returned but counted as a failed attempt, with back-off and retry
AttemptOkRetriesWithoutKey ==
    /\ pc = "call"
    /\ attempt < max_retries
    /\ \E body \in Bodies(Len(df)) :
          IF body.kind \in {"falsy", "nokey"}
          THEN /\ attempt' = attempt + 1
               /\ delays' = IF attempt < max_retries - 1
                             THEN Append(delays, 2 ^ attempt) ELSE delays
               /\ UNCHANGED <<response, exact_service, pc>>
          ELSE /\ response' = body
               /\ exact_service' =
                      (exact_service /\
                         (body.kind = "texts" =>
                             ExactAnswer(body.texts, api_request.texts)))
               /\ pc' = "returned"
               /\ UNCHANGED <<attempt, delays>>
    /\ http_log' = Sent("ok")
    /\ UNCHANGED <<input_file, output_file, df, batch_size, i, api_request,
                   max_retries, results, failed_batches, skipped_rows, pbar,
                   files, save_calls>>

\* An attempt answered 200 with a JSON body: `return response.json()`
AttemptOk ==
    /\ pc = "call"
    /\ attempt < max_retries
    /\ \E body \in Bodies(Len(df)) :
          /\ response' = body
          /\ exact_service' =
                 (exact_service /\
                    (body.kind = "texts" =>
                        ExactAnswer(body.texts, api_request.texts)))
    /\ http_log' = Sent("ok")
    /\ pc' = "returned"
    /\ UNCHANGED <<input_file, output_file, df, batch_size, i, api_request, max_retries, attempt,
                   delays, results, failed_batches, skipped_rows, pbar,
                   files, save_calls>>

\* Variant of Backoff: sleeps after the last attempt too
BackoffAfterEveryAttempt == Append(delays, 2 ^ attempt)

\* The back-off of a failed attempt: sleep 2^attempt unless it was the last
Backoff ==
    IF attempt < max_retries - 1 THEN Append(delays, 2 ^ attempt) ELSE delays

FailedAttempt(outcome) ==
    /\ pc = "call"
    /\ attempt < max_retries
    /\ http_log' = Sent(outcome)
    /\ delays' = Backoff
    /\ attempt' = attempt + 1
    /\ UNCHANGED <<input_file, output_file, df, batch_size, i, pc, api_request, max_retries,
                   response, results, failed_batches, skipped_rows, pbar,
                   files, save_calls, exact_service>>

\* An attempt answered with a status other than 200
AttemptStatusError == FailedAttempt("status")

\* requests.post raised a RequestException (connection, timeout), or
\* response.json() raised requests' JSONDecodeError, a RequestException
AttemptRequestException == FailedAttempt("exception")

\* The loop is exhausted: `return None`
GiveUp ==
    /\ pc = "call"
    /\ attempt >= max_retries
    /\ response' = NoneResponse
    /\ pc' = "returned"
    /\ UNCHANGED <<input_file, output_file, df, batch_size, i, api_request, max_retries, attempt,
                   delays, results, failed_batches, skipped_rows, pbar,
                   http_log, files, save_calls,
                   exact_service>>

\* ------------------------------------------- driver: after make_api_call
\* The rest of the iteration: merge the response or record the failure
\* (the else branch, or the except clause around the iteration), then
\* advance the progress bar and the loop.
HandleResponse ==
    /\ pc = "returned"
    /\ IF ValidResponse(response)
       THEN LET m == IF response.kind = "nolist"
                     THEN [out |-> <<>>, raised |-> TRUE]
                     ELSE MergeItems(response.texts, batch_df, batch_num)
            IN  /\ results' = results \o m.out
                /\ failed_batches' =
                       IF m.raised
                       THEN Append(failed_batches, batch_num)
                       ELSE failed_batches
       ELSE /\ results' = results
            /\ failed_batches' = Append(failed_batches, batch_num)
    /\ pbar' = pbar + Len(batch_df)
    /\ i' = i + batch_size
    /\ pc' = "loop"
    /\ UNCHANGED <<input_file, output_file, df, batch_size, api_request, max_retries, attempt,
                   delays, response, skipped_rows, http_log, files,
                   save_calls, exact_service>>

\* ----------------------------------------------------------- save_results
\* Variant of save_results: returns at once when there are no results, so
\* the two side files are written only next to a results file
save_results_results_first(res, failed, skipped) ==
    IF res = <<>>
    THEN NoFiles
    ELSE [parquet |-> <<res>>,
          json    |-> <<res>>,
          failed  |-> IF failed # <<>>
                      THEN <<[failed_batches |-> failed]>> ELSE <<>>,
          skipped |-> IF skipped # <<>>
                      THEN <<[skipped_rows |-> skipped,
                              total_skipped |-> Len(skipped)]>>
                      ELSE <<>>]

\* What each of the four output paths holds after the call: <<>> when the
\* file is not written, <<content>> when it is.
save_results(res, failed, skipped) ==
    [parquet |-> IF res # <<>> THEN <<res>> ELSE <<>>,
     json    |-> IF res # <<>> THEN <<res>> ELSE <<>>,
     failed  |-> IF failed # <<>>
                 THEN <<[failed_batches |-> failed]>> ELSE <<>>,
     skipped |-> IF skipped # <<>>
                 THEN <<[skipped_rows |-> skipped,
                         total_skipped |-> Len(skipped)]>>
                 ELSE <<>>]

\* The loop is over: save_results(results, output_file, failed_batches,
\* skipped_rows)
SaveResults ==
    /\ pc = "loop"
    /\ ~LoopContinues
    /\ files' = save_results(results, failed_batches, skipped_rows)
    /\ save_calls' = save_calls + 1
    /\ pc' = "done"
    /\ UNCHANGED <<input_file, output_file, df, batch_size, i, api_request, max_retries, attempt,
                   delays, response, results, failed_batches, skipped_rows,
                   pbar, http_log, exact_service>>

Next ==
    \/ PrepareBatch
    \/ AttemptOk
    \/ AttemptStatusError
    \/ AttemptRequestException
    \/ GiveUp
    \/ HandleResponse
    \/ SaveResults

Spec == Init /\ [][Next]_vars

\* The program is sequential and every step of it ends (a request ends by
\* its timeout at the latest), so a step that can be taken is taken.
InitLive == Loaded(MaxLiveRecords)

FairSpec == InitLive /\ [][Next]_vars /\ WF_vars(Next)

\* ------------------------------------------------- the run from main on
InitMain ==
    /\ input_file \in InputFiles
    /\ output_file \in OutputPaths
    /\ df = <<>>
    /\ batch_size \in 1..MaxBatchSize
    /\ pc = "main"
    /\ max_retries = DefaultMaxRetries
    /\ api_request = [texts |-> <<>>, skipped |-> <<>>]
    /\ skipped_rows = <<>>
    /\ Fresh

NextMain ==
    \/ MainStart
    \/ LoadData
    \/ Next

SpecMain == InitMain /\ [][NextMain]_vars

\* ------------------------------------------- make_api_call on its own
\* make_api_call entered for the first batch of an input, with any
\* max_retries.
InitClient ==
    /\ \E n \in 1..MaxRecords : df \in InputFrames(n, RowKinds)
    /\ input_file = ParquetFile(df)
    /\ output_file = DefaultOutput
    /\ batch_size \in 1..MaxBatchSize
    /\ max_retries \in 0..MaxRetries
    /\ Fresh
    /\ api_request = prepare_api_batch(iloc(df, 0, batch_size))
    /\ api_request.texts # <<>>
    /\ skipped_rows = api_request.skipped
    /\ pc = "call"

NextClient ==
    \/ AttemptOk
    \/ AttemptStatusError
    \/ AttemptRequestException
    \/ GiveUp

SpecClient == InitClient /\ [][NextClient]_vars

\* ------------------------- make_api_call and the driver's handling of it
\* The rest of the first iteration after make_api_call, for any max_retries
NextCall ==
    \/ NextClient
    \/ HandleResponse

SpecCall == InitClient /\ [][NextCall]_vars

\* -------------------------------------------- prepare_api_batch on its own
\* The filter applied to the batches of inputs whose two text cells range
\* over all of TextCells.
AllRowKinds == [ChildText : TextCells, AdultText : TextCells]

InitFilter ==
    /\ \E n \in 0..MaxFilterRows : df \in InputFrames(n, AllRowKinds)
    /\ input_file = ParquetFile(df)
    /\ output_file = DefaultOutput
    /\ batch_size \in 1..MaxBatchSize
    /\ pc = "loop"
    /\ max_retries = DefaultMaxRetries
    /\ api_request = [texts |-> <<>>, skipped |-> <<>>]
    /\ skipped_rows = <<>>
    /\ Fresh

NextFilter == PrepareBatch

SpecFilter == InitFilter /\ [][NextFilter]_vars

\* ================================================================ claims
\* Notions the claims are stated in, defined apart from the operators above.
Range(seq) == { seq[k] : k \in 1..Len(seq) }

RowIds == 0..(Len(df) - 1)

\* 1-based sequence number of the batch holding row k
BatchOf(k) == (k \div batch_size) + 1

\* ceil(a / b)
CeilDiv(a, b) == CHOOSE c \in 0..a : c * b >= a /\ (c = 0 \/ (c - 1) * b < a)

AllWhitespace(s) == \A k \in 1..Len(s) : s[k] \in Whitespace

\* The text of a cell as the pipeline reads it
TextOf(cell) == IF cell.null THEN <<"N", "o", "n", "e">> ELSE cell.chars

\* Row k has a text that is empty after trimming surrounding whitespace
Blank(k) ==
    \/ AllWhitespace(TextOf(df[k + 1].row.ChildText))
    \/ AllWhitespace(TextOf(df[k + 1].row.AdultText))

OutputsOf(k) == { j \in 1..Len(results) : results[j].page_id = k }
HasOutput(k) == OutputsOf(k) # {}
IsSkipped(k) == \E j \in 1..Len(skipped_rows) : skipped_rows[j].index = k
InFailedBatch(k) == BatchOf(k) \in Range(failed_batches)

\* The OutputRecord row k yields in its batch
OutputFor(k) ==
    [original_id |-> df[k + 1].row.ID,
     original_child_text |-> df[k + 1].row.ChildText,
     original_adult_text |-> df[k + 1].row.AdultText,
     original_time |-> df[k + 1].row.Time,
     page_id |-> k,
     batch_number |-> BatchOf(k)]

\* Row identifiers in the payload of the current request
Submitted == { api_request.texts[k].pageId : k \in 1..Len(api_request.texts) }

\* The step that ends an iteration after make_api_call has returned
HandleStep == pc = "returned" /\ pc' = "loop"

C3_Paired(r) ==
    /\ r.page_id \in RowIds
    /\ r.original_id = df[r.page_id + 1].row.ID
    /\ r.original_child_text = df[r.page_id + 1].row.ChildText
    /\ r.original_adult_text = df[r.page_id + 1].row.AdultText
    /\ r.original_time = df[r.page_id + 1].row.Time

\* The response names submitted rows only, in any order
C3_NamesSubmittedRows ==
    /\ response.kind = "texts"
    /\ \A k \in 1..Len(response.texts) :
          response.texts[k].dict /\ response.texts[k].pageId \in Submitted

C3_Step ==
    (HandleStep /\ C3_NamesSubmittedRows) =>
        /\ Len(results') = Len(results) + Len(response.texts)
        /\ SubSeq(results', 1, Len(results)) = results
        /\ \A k \in 1..Len(response.texts) :
              /\ results'[Len(results) + k].page_id = response.texts[k].pageId
              /\ C3_Paired(results'[Len(results) + k])
        /\ failed_batches' = failed_batches
        /\ skipped_rows' = skipped_rows

\* C3: reconciliation matches by identifier, not by position: a response
\* that lists any of the submitted rows in any order yields one OutputRecord
\* per item, in the order of the items, each carrying the ID, child text,
\* adult text and time of the record whose row identifier is the item's
\* pageId; a submitted row the response leaves out yields no OutputRecord,
\* no FailureEntry and no SkipEntry (rows {0,1,2}, response {2,0}: two
\* OutputRecords, for rows 2 and 0).
C3_MatchByIdentifier ==
    /\ [](\A j \in 1..Len(results) : C3_Paired(results[j]))
    /\ [][C3_Step]_vars

\* The batch {0,1,2} was answered with the items 2, 0.
C3_Witness ==
    /\ Len(df) = 3 /\ batch_size = 3 /\ i = 3 /\ pc = "loop"
    /\ Len(api_request.texts) = 3
    /\ response.kind = "texts"
    /\ Len(response.texts) = 2
    /\ response.texts[1] = [dict |-> TRUE, pageId |-> 2]
    /\ response.texts[2] = [dict |-> TRUE, pageId |-> 0]
    /\ results = <<OutputFor(2), OutputFor(0)>>
    /\ failed_batches = <<>>
    /\ skipped_rows = <<>>

\* ------------------------------------------------------------------- C4
\* The batch a logged request belongs to
C4_BatchOfRequest(e) == BatchOf(e.texts[1].pageId)

\* make_api_call returned None for batch b and the driver has dealt with it
C4_Exhausted(b) ==
    /\ \E j \in 1..Len(http_log) : C4_BatchOfRequest(http_log[j]) = b
    /\ \A j \in 1..Len(http_log) :
          C4_BatchOfRequest(http_log[j]) = b => http_log[j].outcome # "ok"
    /\ b * batch_size <= i

C4_Step ==
    (HandleStep /\ response.kind = "none") =>
        /\ failed_batches' =
               Append(failed_batches, BatchOf(api_request.texts[1].pageId))
        /\ results' = results

\* C4: when make_api_call returns the failure signal for a batch, the step
\* that handles it records exactly one FailureEntry, holding that batch's
\* 1-based sequence number, and no other; failed_batches holds that number
\* exactly once and no OutputRecord has that batch number.
C4_FailureRecorded ==
    /\ [][C4_Step]_vars
    /\ [](\A b \in 1..Len(df) :
            C4_Exhausted(b) =>
                /\ Cardinality({ j \in 1..Len(failed_batches) :
                                    failed_batches[j] = b }) = 1
                /\ \A j \in 1..Len(results) : results[j].batch_number # b)

\* A finished run in which the second batch's call was exhausted and
\* another batch was scored.
C4_Witness ==
    /\ pc = "done"
    /\ C4_Exhausted(2)
    /\ failed_batches = <<2>>
    /\ results # <<>>

\* ------------------------------------------------------------------- C5
\* Row identifiers of the batch the loop is at
C5_BatchRows == { k \in RowIds : i <= k /\ k < i + batch_size }

C5_WellFormedSkip(e) ==
    /\ e.index \in RowIds
    /\ e.reason = "empty_text"
    /\ e.id = df[e.index + 1].row.ID
    /\ Blank(e.index)

\* The filter step of a batch: what it puts into the payload and into
\* SkipEntries
C5_Step ==
    (pc = "loop" /\ i < Len(df)) =>
        /\ { api_request'.skipped[j].index :
                j \in 1..Len(api_request'.skipped) }
              = { k \in C5_BatchRows : Blank(k) }
        /\ { api_request'.texts[j].pageId :
                j \in 1..Len(api_request'.texts) }
              = { k \in C5_BatchRows : ~Blank(k) }
        /\ Len(api_request'.skipped) + Len(api_request'.texts)
              = Cardinality(C5_BatchRows)
        /\ skipped_rows' = skipped_rows \o api_request'.skipped

\* C5: a row of a batch is placed in SkipEntries, with reason "empty_text"
\* and its row identifier, and left out of the request payload if and only
\* if its child text or its adult text is empty after trimming surrounding
\* whitespace; a row with both texts non-empty after trimming is never in
\* SkipEntries and is always in the payload.
C5_SkipIffBlank ==
    /\ [][C5_Step]_vars
    /\ [](\A j \in 1..Len(skipped_rows) : C5_WellFormedSkip(skipped_rows[j]))
    /\ [](pc = "call" => \A k \in Submitted : ~Blank(k))

\* A batch of two rows was filtered: one row with a whitespace-only text
\* went to SkipEntries, one row with padded texts went into the payload.
C5_Witness ==
    /\ pc = "call"
    /\ Len(api_request.skipped) = 1
    /\ Len(api_request.texts) = 1
    /\ skipped_rows = api_request.skipped
    /\ \E k \in RowIds :
          /\ k \in Submitted
          /\ df[k + 1].row.ChildText = Cell(<<" ", "a", "\t">>)
    /\ \E k \in RowIds :
          /\ IsSkipped(k)
          /\ df[k + 1].row.AdultText = Cell(<<" ">>)
          /\ df[k + 1].row.ChildText = Cell(<<"a">>)

\* ------------------------------------------------------------------- C6
\* Concatenation of the batches k..m of the partition
RECURSIVE C6_Concat(_, _)
C6_Concat(k, m) ==
    IF k > m THEN <<>>
    ELSE iloc(df, (k - 1) * batch_size, k * batch_size) \o C6_Concat(k + 1, m)

\* C6: the batches the driver loop forms are contiguous, non-overlapping
\* slices of at most batch_size records, their concatenation in sequence
\* order is the input, there are ceil(n / batch_size) of them (the announced
\* total_batches), and the batch at offset i has the number i / batch_size + 1.
C6_Partition ==
    /\ i % batch_size = 0
    /\ total_batches = CeilDiv(Len(df), batch_size)
    /\ i <= total_batches * batch_size
    /\ pbar = (IF i < Len(df) THEN i ELSE Len(df))
    /\ i < Len(df) =>
          /\ batch_df =
                [k \in 1..((IF i + batch_size < Len(df)
                            THEN i + batch_size ELSE Len(df)) - i) |->
                    df[i + k]]
          /\ Len(batch_df) >= 1
          /\ Len(batch_df) <= batch_size
          /\ batch_num = BatchOf(batch_df[1].index)
          /\ batch_num <= total_batches
    /\ pc = "done" => i = total_batches * batch_size
    /\ C6_Concat(1, total_batches) = df

\* The loop is at the short last batch of a three-row input cut in twos.
C6_Witness ==
    /\ Len(df) = 3 /\ batch_size = 2 /\ i = 2 /\ pc = "call"
    /\ Len(batch_df) = 1
    /\ batch_num = 2
    /\ total_batches = 2

\* ------------------------------------------------------------------- C7
\* The sleeps between n consecutive failed attempts: 2^0, ..., 2^(n-2)
C7_Delays(n) == [k \in 1..(n - 1) |-> 2 ^ (k - 1)]

C7_AllFailed ==
    \A j \in 1..Len(http_log) : http_log[j].outcome \in {"status", "exception"}

\* C7 (as claimed): when every attempt of a call fails, make_api_call makes
\* the first attempt and up to max_retries retries, sleeps 2^attempt seconds
\* between consecutive attempts and not after the last, and returns None.
C7_FirstAttemptThenRetries ==
    (pc = "returned" /\ response.kind = "none") =>
        /\ Len(http_log) >= 1
        /\ Len(http_log) - 1 <= max_retries
        /\ C7_AllFailed
        /\ delays = C7_Delays(Len(http_log))

\* C7 (amended): when every attempt of a call fails, make_api_call makes
\* max_retries attempts in all (the first attempt and max_retries - 1
\* retries; no attempt when max_retries is 0), sleeps 2^attempt seconds
\* (attempt counted from 0) after each failed attempt but the last, and
\* returns None.
C7_MaxRetriesAttempts ==
    /\ pc = "call" =>
          /\ attempt <= max_retries
          /\ Len(http_log) = attempt
          /\ C7_AllFailed
          /\ delays = C7_Delays(IF attempt < max_retries
                                THEN attempt + 1 ELSE attempt)
    /\ (pc = "returned" /\ response.kind = "none") =>
          /\ Len(http_log) = max_retries
          /\ C7_AllFailed
          /\ delays = C7_Delays(max_retries)

\* Three attempts failed, with sleeps of 1 and 2 seconds between them, and
\* the call returned None.
C7_Witness ==
    /\ pc = "returned"
    /\ response.kind = "none"
    /\ max_retries = 3
    /\ Len(http_log) = 3
    /\ http_log[1].outcome = "status"
    /\ http_log[2].outcome = "exception"
    /\ delays = <<1, 2>>

\* ------------------------------------------------------------------- C8
\* The iteration of a batch whose rows are all filtered out
C8_Step ==
    (pc = "loop" /\ i < Len(df) /\ \A k \in C5_BatchRows : Blank(k)) =>
        /\ pc' = "loop"
        /\ i' = i + batch_size
        /\ http_log' = http_log
        /\ results' = results
        /\ failed_batches' = failed_batches
        /\ Len(skipped_rows') = Len(skipped_rows) + Cardinality(C5_BatchRows)

\* C8: when every row of a batch is filtered out, make_api_call is not
\* entered and no request is sent; the iteration adds the batch's
\* SkipEntries and nothing else, and goes on to the next offset.  No
\* request ever carries an empty payload.
C8_NoCallForEmptyBatch ==
    /\ [][C8_Step]_vars
    /\ [](\A j \in 1..Len(http_log) : http_log[j].texts # <<>>)
    /\ [](pc \in {"call", "returned"} => api_request.texts # <<>>)

\* The first batch had two rows, both filtered out: the loop is at the
\* second batch and nothing but the two SkipEntries has been recorded.
C8_Witness ==
    /\ batch_size = 2 /\ i = 2 /\ pc = "loop"
    /\ Len(df) = 3
    /\ http_log = <<>>
    /\ Len(skipped_rows) = 2
    /\ IsSkipped(0) /\ IsSkipped(1)
    /\ results = <<>>
    /\ failed_batches = <<>>

\* ------------------------------------------------------------------- C9
C9_AscendingOnce ==
    /\ i' # i => (i < Len(df) /\ i' = i + batch_size)
    /\ save_calls' # save_calls =>
          (i >= Len(df) /\ save_calls = 0 /\ save_calls' = 1)

\* C9: a batch failure never stops the run: the loop offset only ever moves
\* to the next batch, so every batch 1..ceil(n / batch_size) is processed
\* once, in ascending order; save_results is called exactly once, after the
\* last batch, and the run always gets there.
C9_RunCompletes ==
    /\ [][C9_AscendingOnce]_vars
    /\ [](pc = "done" =>
            /\ save_calls = 1
            /\ pbar = Len(df)
            /\ i = CeilDiv(Len(df), batch_size) * batch_size)
    /\ [](pc # "done" => save_calls = 0)
    /\ <>(pc = "done")

\* A finished run whose first batch failed by the failure signal and whose
\* second batch was scored.
C9_Witness ==
    /\ pc = "done"
    /\ save_calls = 1
    /\ failed_batches = <<1>>
    /\ http_log[1].outcome # "ok"
    /\ \E j \in 1..Len(results) : results[j].batch_number = 2

\* ------------------------------------------------------------------ C10
\* pageIds of the items, in order, that name a row of the request's payload
RECURSIVE C10_SubmittedIds(_)
C10_SubmittedIds(items) ==
    IF items = <<>> THEN <<>>
    ELSE (IF Head(items).pageId \in Submitted
          THEN <<Head(items).pageId>> ELSE <<>>)
             \o C10_SubmittedIds(Tail(items))

C10_Step ==
    (HandleStep /\ response.kind = "texts"
        /\ \A k \in 1..Len(response.texts) : response.texts[k].dict) =>
        /\ Len(results') >= Len(results)
        /\ SubSeq(results', 1, Len(results)) = results
        /\ [k \in 1..(Len(results') - Len(results)) |->
               results'[Len(results) + k].page_id]
              = C10_SubmittedIds(response.texts)
        /\ failed_batches' = failed_batches
        /\ skipped_rows' = skipped_rows

\* C10 (as claimed): a response item whose pageId names no row submitted in
\* the batch's request (a row of another batch, an unknown identifier, a
\* row of the same batch that was filtered out) is dropped: no OutputRecord,
\* no FailureEntry, no SkipEntry; the other items are still processed.
C10_UnsubmittedDropped == [][C10_Step]_vars

\* ---------------------------------------------------------------- C11
\* C11: in every reachable state no entry of results carries a
\* batch_number that is in failed_batches, whichever way the batch failed
\* (failure signal from the client, response without the "texts" key, or
\* an error raised while merging the response items).
C11_FailedBatchHasNoOutput ==
    \A j \in 1..Len(results) :
        results[j].batch_number \notin Range(failed_batches)

\* ---------------------------------------------------------------- C12
\* C12: once save_results has run, the results file and its JSON mirror
\* are written, both holding the OutputRecords, if and only if there is at
\* least one OutputRecord; the failed-batches file is written, holding
\* {failed_batches: [...]}, if and only if there is at least one
\* FailureEntry; the skipped-rows file is written, holding {skipped_rows,
\* total_skipped: N} with N the number of SkipEntries, if and only if there
\* is at least one SkipEntry.  Empty results suppress the first two files
\* only.  Nothing is written before save_results runs.
C12_FilesWritten ==
    IF pc = "done"
    THEN /\ files.parquet = IF results = <<>> THEN <<>> ELSE <<results>>
         /\ files.json = files.parquet
         /\ files.failed # <<>> <=> failed_batches # <<>>
         /\ files.failed # <<>> =>
                files.failed[1] = [failed_batches |-> failed_batches]
         /\ files.skipped # <<>> <=> skipped_rows # <<>>
         /\ files.skipped # <<>> =>
                /\ files.skipped[1].skipped_rows = skipped_rows
                /\ files.skipped[1].total_skipped = Len(skipped_rows)
    ELSE files = NoFiles

\* A finished run without any OutputRecord whose failed-batches file and
\* skipped-rows file are written all the same
C12_Witness ==
    /\ pc = "done"
    /\ results = <<>>
    /\ files.parquet = <<>>
    /\ files.json = <<>>
    /\ files.failed # <<>>
    /\ files.skipped # <<>>
    /\ files.skipped[1].total_skipped = 2

\* ---------------------------------------------------------------- C13
\* The exit status of the process: 1 after sys.exit(1) or an uncaught
\* exception, 0 after main returned, none while it runs
Exited == pc \in {"exit1", "done"}
ExitStatus == IF pc = "exit1" THEN 1 ELSE 0

BadInput ==
    \/ ~input_file.exists
    \/ ~(required_cols \subseteq input_file.columns)

\* C13: when the input file is missing or lacks a required column the run
\* ends with a non-zero exit status, no request sent and no output file
\* written; every other run that ends, ends with exit status zero, also
\* when batches have failed.
C13_ExitStatus ==
    /\ BadInput => /\ pc \in {"main", "load", "exit1"}
                   /\ http_log = <<>>
                   /\ files = NoFiles
                   /\ save_calls = 0
    /\ (Exited /\ ~BadInput) => ExitStatus = 0

\* ---------------------------------------------------------------- C15
\* The call of the first batch is over (returned, or handled by the driver)
C15_CallOver == pc \in {"returned", "loop"}

C15_NoTextsKey == response.kind \in {"falsy", "nokey"}

\* Every attempt but the last was a failure and the last was answered 200
C15_EndedBy200 ==
    /\ http_log # <<>>
    /\ http_log[Len(http_log)].outcome = "ok"
    /\ \A j \in 1..(Len(http_log) - 1) :
          http_log[j].outcome \in {"status", "exception"}

\* The retry policy ran to its end: max_retries attempts, all failures
C15_PolicyExhausted ==
    /\ Len(http_log) = max_retries
    /\ \A j \in 1..Len(http_log) : http_log[j].outcome # "ok" \/ C15_NoTextsKey

\* C15 (as claimed): an attempt is a success if and only if it is answered
\* 200 with a body that has the "texts" key; a non-200 status, a transport
\* error and a 200 body without the key are attempt failures, so a batch
\* is recorded as failed for them only after the retry policy ran to its
\* end.
C15_NoKeyIsAttemptFailure ==
    /\ (C15_CallOver /\ response.kind \in {"texts", "nolist"}) =>
           C15_EndedBy200
    /\ (C15_CallOver /\ (response.kind = "none" \/ C15_NoTextsKey)) =>
           C15_PolicyExhausted
    /\ (pc = "loop" /\ (response.kind = "none" \/ C15_NoTextsKey)) =>
           /\ failed_batches = <<1>>
           /\ results = <<>>

\* C15 (amended): make_api_call ends at the first attempt answered 200
\* with a JSON body, whatever the body holds; only a non-200 status and a
\* transport error are attempt failures to which the retry policy applies,
\* and the failure signal is returned after max_retries such attempts.  A
\* 200 body without the "texts" key is not retried: it is returned to the
\* driver, which records the batch as failed at once, as it does for the
\* failure signal.
C15_Any200EndsTheCall ==
    /\ (C15_CallOver /\ response.kind # "none") => C15_EndedBy200
    /\ (C15_CallOver /\ response.kind = "none") =>
           /\ Len(http_log) = max_retries
           /\ \A j \in 1..Len(http_log) : http_log[j].outcome # "ok"
    /\ (pc = "loop" /\ (response.kind = "none" \/ C15_NoTextsKey)) =>
           /\ failed_batches = <<1>>
           /\ results = <<>>

\* With three attempts allowed, the first got a non-200 status, the second
\* a 200 body without "texts"; no third attempt was made and the batch is
\* recorded as failed.
C15_Witness ==
    /\ pc = "loop"
    /\ max_retries = 3
    /\ Len(http_log) = 2
    /\ http_log[1].outcome = "status"
    /\ http_log[2].outcome = "ok"
    /\ response.kind = "nokey"
    /\ failed_batches = <<1>>
    /\ results = <<>>

\* ---------------------------------------------------------------- C16
\* The SkipEntries the step appends
C16_NewSkips == SubSeq(skipped_rows', Len(skipped_rows) + 1, Len(skipped_rows'))

C16_Ascending(ids) ==
    \A j \in 1..Len(ids) : \A k \in (j + 1)..Len(ids) : ids[j] < ids[k]

C16_Step ==
    (pc = "loop" /\ i < Len(df)) =>
        LET texts == api_request'.texts
            pageIds == [j \in 1..Len(texts) |-> texts[j].pageId]
            skips == C16_NewSkips
            skipIds == [j \in 1..Len(skips) |-> skips[j].index]
        IN  /\ C16_Ascending(pageIds)
            /\ Range(pageIds) = { k \in C5_BatchRows : ~Blank(k) }
            /\ \A j \in 1..Len(texts) :
                  /\ texts[j].childText
                         = strip(TextOf(df[texts[j].pageId + 1].row.ChildText))
                  /\ texts[j].adultText
                         = strip(TextOf(df[texts[j].pageId + 1].row.AdultText))
            /\ C16_Ascending(skipIds)
            /\ Range(skipIds) = { k \in C5_BatchRows : Blank(k) }
            /\ \A j \in 1..Len(skips) :
                  skips[j].id = df[skips[j].index + 1].row.ID
            /\ api_request'.skipped = skips

\* C16: filtering neither reorders nor renumbers.  The payload of a batch
\* lists the batch's rows without empty text in their original relative
\* order, each with pageId equal to the row's identifier and with that
\* row's trimmed texts; the SkipEntries of the batch list its rows with an
\* empty text in their original relative order, each with the row's
\* identifier and ID.
C16_OrderAndIdsKept == [][C16_Step]_vars

\* The first row of a two-row batch was filtered out: the payload's only
\* entry is row 1 and carries pageId 1, the SkipEntry carries index 0.
C16_Witness ==
    /\ pc = "call"
    /\ i = 0
    /\ batch_size = 2
    /\ Len(df) = 2
    /\ Len(api_request.texts) = 1
    /\ api_request.texts[1].pageId = 1
    /\ Len(skipped_rows) = 1
    /\ skipped_rows[1].index = 0

\* ---------------------------------------------------------------- C17
\* The OutputRecords the step appends
C17_NewRecords == SubSeq(results', Len(results) + 1, Len(results'))

C17_Step ==
    HandleStep =>
        \A j \in 1..Len(C17_NewRecords) :
            /\ C17_NewRecords[j].page_id \in C5_BatchRows
            /\ C17_NewRecords[j].batch_number = BatchOf(i)

\* C17: the batch_number of every OutputRecord is the sequence number of
\* the batch that holds the row named by its page_id, that is page_id div
\* batch_size + 1; the step that merges a response appends records for
\* rows of the batch at hand only, so a response item that names a row of
\* another batch never makes an OutputRecord.
C17_BatchNumberOfRow ==
    /\ [][C17_Step]_vars
    /\ [](\A j \in 1..Len(results) :
            /\ results[j].page_id \in RowIds
            /\ results[j].batch_number
                   = (results[j].page_id \div batch_size) + 1)

\* The response to the second batch (row 1) named row 0 of the first batch
\* as well: the only OutputRecord is that of row 1, in batch 2.
C17_Witness ==
    /\ pc = "loop"
    /\ batch_size = 1
    /\ i = 2
    /\ response.kind = "texts"
    /\ Len(response.texts) = 2
    /\ response.texts[1].dict /\ response.texts[1].pageId = 0
    /\ response.texts[2].dict /\ response.texts[2].pageId = 1
    /\ Len(results) = 1
    /\ results[1].page_id = 1
    /\ results[1].batch_number = 2

\* ---------------------------------------------------------------- C18
C18_IsPrefix(s, t) == Len(s) <= Len(t) /\ SubSeq(t, 1, Len(s)) = s

\* No step removes or changes an entry of an accumulator
C18_Step ==
    /\ C18_IsPrefix(results, results')
    /\ C18_IsPrefix(failed_batches, failed_batches')
    /\ C18_IsPrefix(skipped_rows, skipped_rows')

\* The rows with an empty text of the batches the filter has been through
\* (the batch at hand included once its request is under way)
C18_FilteredRows ==
    { k \in RowIds :
        Blank(k) /\ (k < i \/ (pc \in {"call", "returned"} /\ k < i + batch_size)) }

\* C18: the SkipEntries of a batch are in skipped_rows before its request
\* is sent and stay there whatever the outcome of the request, so a batch
\* in failed_batches still has each of its rows with an empty text in
\* skipped_rows; no step removes or changes an entry of results,
\* failed_batches or skipped_rows.
C18_SkipsOutliveFailure ==
    /\ [][C18_Step]_vars
    /\ [](\A k \in C18_FilteredRows : IsSkipped(k))
    /\ [](\A k \in RowIds :
            (Blank(k) /\ InFailedBatch(k)) => IsSkipped(k))
    /\ [](\A j \in 1..Len(http_log) :
            \A k \in RowIds :
                (Blank(k) /\ BatchOf(k) = C4_BatchOfRequest(http_log[j]))
                    => IsSkipped(k))

\* A finished run whose first batch (row 0 with an empty text, row 1 sent)
\* failed: row 0 is in skipped_rows all the same, as is row 2 of the
\* batch after it.
C18_Witness ==
    /\ pc = "done"
    /\ batch_size = 2
    /\ Len(df) = 3
    /\ failed_batches = <<1>>
    /\ results = <<>>
    /\ Blank(0)
    /\ ~Blank(1)
    /\ Blank(2)
    /\ Len(skipped_rows) = 2
    /\ skipped_rows[1].index = 0
    /\ skipped_rows[2].index = 2

\* ---------------------------------------------------------------- C19
\* The items of a response up to the first that is no JSON object
RECURSIVE C19_ObjectsBefore(_)
C19_ObjectsBefore(items) ==
    IF items = <<>> \/ ~Head(items).dict
    THEN <<>>
    ELSE <<Head(items)>> \o C19_ObjectsBefore(Tail(items))

\* The row identifiers the items name, those outside rows left out
RECURSIVE C19_NamedRows(_, _)
C19_NamedRows(items, rows) ==
    IF items = <<>>
    THEN <<>>
    ELSE IF Head(items).pageId \in rows
    THEN <<Head(items).pageId>> \o C19_NamedRows(Tail(items), rows)
    ELSE C19_NamedRows(Tail(items), rows)

\* Within one batch the OutputRecords follow the order of the response
\* items
C19_Step ==
    (HandleStep /\ response.kind = "texts") =>
        LET new == SubSeq(results', Len(results) + 1, Len(results')) IN
            [j \in 1..Len(new) |-> new[j].page_id]
                = C19_NamedRows(C19_ObjectsBefore(response.texts),
                                C5_BatchRows)

\* C19: the accumulators are ordered by batch.  Along results the
\* batch_number never decreases, failed_batches is strictly increasing,
\* the row identifiers along skipped_rows are strictly increasing, and the
\* OutputRecords of one batch appear in the order of the response items
\* they were made from.
C19_OrderedByBatch ==
    /\ [][C19_Step]_vars
    /\ [](\A j \in 1..Len(results) : \A k \in j..Len(results) :
            results[j].batch_number <= results[k].batch_number)
    /\ [](\A j \in 1..Len(failed_batches) :
            \A k \in (j + 1)..Len(failed_batches) :
                failed_batches[j] < failed_batches[k])
    /\ [](\A j \in 1..Len(skipped_rows) :
            \A k \in (j + 1)..Len(skipped_rows) :
                skipped_rows[j].index < skipped_rows[k].index)

\* A finished run over two batches: the response to the first named row 1
\* before row 0, and results holds row 1, row 0, then row 2 of batch 2.
C19_Witness ==
    /\ pc = "done"
    /\ batch_size = 2
    /\ Len(results) = 3
    /\ results[1].page_id = 1 /\ results[1].batch_number = 1
    /\ results[2].page_id = 0 /\ results[2].batch_number = 1
    /\ results[3].page_id = 2 /\ results[3].batch_number = 2

====
